---------------------------- MODULE Spec2Model ----------------------------
(***************************************************************************)
(* Model of the Power Pet Door schedule card                               *)
(* (src/www/powerpetdoor-schedule-card.js, class PowerPetDoorScheduleCard).*)
(*                                                                         *)
(* A time string "HH:MM" is the pair <<HH, MM>>; the empty string is <<>>. *)
(* Two zero-padded "HH:MM" strings compare as their pairs do.              *)
(* A schedule is a function from the day keys it has to sequences of       *)
(* slots [from, to].  Indices are 0-based as in the source; the element of *)
(* index i of a JavaScript array is element i + 1 of the sequence.         *)
(* Every handler is one action; the render() a handler ends with only      *)
(* rebuilds the DOM, which is a function of the fields (see GridShown and  *)
(* DialogShown).                                                           *)
(***************************************************************************)
EXTENDS Integers, Sequences, FiniteSets, TLC

VARIABLES
    config,               \* TRUE iff this._config.entity is set
    hass,                 \* 0: this._hass is null; n > 0: hass.states[entity] is state object n
    configThrew,          \* the latest setConfig call threw
    connected,            \* the element is attached to the document
    schedule,             \* this._schedule
    sharedAllDay,         \* the days whose first slot is one and the same object
    loading,              \* this._loading
    error,                \* this._error is not null
    expanded,             \* this._expanded
    currentTimeInterval,  \* this._currentTimeInterval is not null
    intervals,            \* number of live timers made by setInterval
    editingSlot,          \* this._editingSlot ({day, index} or NoEdit)
    isNewSlot,            \* this._isNewSlot
    isDragging,           \* this._isDragging
    dragType,             \* this._dragType
    dragDay,              \* this._dragDay
    dragStartMinutes,     \* this._dragStartMinutes
    dragCurrentMinutes,   \* this._dragCurrentMinutes
    dragSlotIndex,        \* this._dragSlotIndex
    dragOriginalSlot,     \* this._dragOriginalSlot
    columnRects,          \* the days that have an entry in this._columnRects
    docListeners,         \* mousemove/mouseup listeners are installed on document
    removalPreviews,      \* the .removal-preview elements with display block: [day, top, bottom]
    pendingLoads,         \* the schedule/get calls in flight, in call order
    newestLoad,           \* the call started last while calls are in flight: pending, or
                          \* done with its response; NoLoad when no call is in flight
    snapshotGate,         \* "skipped": a snapshot with a changed entity state was passed over
                          \* by the session test of set hass and no load has started since;
                          \* "ignored": a later snapshot outside any session started none either
    loadLimit,            \* number of schedule/get calls allowed in flight (bounds the exploration)
    pendingSaves,         \* number of schedule/update calls in flight
    lastSaved,            \* <<payload>> of the latest schedule/update call while one is in flight, else <<>>
    alerts,               \* TRUE once alert() has been raised
    gesturesLeft,         \* number of user gestures still allowed (bounds the exploration)
    pre                   \* <<schedule at the pointer-down of the create in progress>>, else <<>>

dragVars == <<isDragging, dragType, dragDay, dragStartMinutes, dragCurrentMinutes,
              dragSlotIndex, dragOriginalSlot>>
domVars  == <<columnRects, docListeners>>
editVars == <<editingSlot, isNewSlot>>
hostVars == <<config, configThrew, hass, connected>>
viewVars == <<expanded, currentTimeInterval, intervals>>
loadVars == <<loading, error>>
netVars  == <<pendingLoads, newestLoad, loadLimit, pendingSaves, lastSaved, alerts>>
auxVars  == <<gesturesLeft, pre>>
vars == <<hostVars, schedule, sharedAllDay, loadVars, viewVars, editVars, dragVars, domVars,
          removalPreviews, snapshotGate, netVars, auxVars>>

----------------------------------------------------------------------------
(* Bounds of the exploration *)

MaxSlots == 2
MaxGestures == 2
MaxPendingLoads == 1
MaxNetGestures == 1
MaxRaceLoads == 2

(* Program constants *)

MinutesPerDay == 1440
LastMinute == 1439
Interval == 15
RectHeight == 200

DAYS == <<"sunday", "monday", "tuesday", "wednesday", "thursday", "friday", "saturday">>
Days == {DAYS[i] : i \in 1..Len(DAYS)}

----------------------------------------------------------------------------
(* Values *)

T(h, m) == <<h, m>>
EmptyTime == <<>>
Slot(f, t) == [from |-> f, to |-> t]
NoSlot == Slot(EmptyTime, EmptyTime)
NoEdit == [day |-> "none", index |-> -1]
EmptySchedule == [d \in {} |-> <<>>]

Min(a, b) == IF a < b THEN a ELSE b
Max(a, b) == IF a > b THEN a ELSE b

----------------------------------------------------------------------------
(* TimeMath *)

ParseTimeToMinutes(time) ==
    IF time = EmptyTime THEN 0 ELSE time[1] * 60 + time[2]

MinutesToTime(minutes) ==
    LET clamped == Max(0, Min(LastMinute, minutes))
    IN  T(clamped \div 60, clamped % 60)

(* RoundToInterval with Math.floor in place of Math.round *)
RoundToInterval_Floor(minutes) == (minutes \div Interval) * Interval

RoundToInterval(minutes) == ((2 * minutes + Interval) \div (2 * Interval)) * Interval

(* y is event.clientY - rect.top; rect.height is the column's 200 px.  The *)
(* source computes floor((relY / 200) * 1440) in floating point, which can *)
(* fall one short of the exact quotient; RoundToInterval absorbs that.     *)
YToMinutes(y) ==
    LET relY == Max(0, Min(y, RectHeight))
    IN  (relY * MinutesPerDay) \div RectHeight

(* from < to on two "HH:MM" strings *)
TimeLess(a, b) == a[1] < b[1] \/ (a[1] = b[1] /\ a[2] < b[2])


----------------------------------------------------------------------------
(* ScheduleModel *)

SlotsOf(s, day) == IF day \in DOMAIN s THEN s[day] ELSE <<>>

SetDay(s, day, slots) == [d \in DOMAIN s \cup {day} |-> IF d = day THEN slots ELSE s[d]]

DeleteDay(s, day) == [d \in DOMAIN s \ {day} |-> s[d]]

(* array[index] = value; an index past the end leaves holes (NoSlot) *)
SetIndex(slots, index, value) ==
    [i \in 1..Max(Len(slots), index + 1) |->
        IF i = index + 1 THEN value
        ELSE IF i <= Len(slots) THEN slots[i] ELSE NoSlot]

(* Splice that removes the element after the one at index *)
Splice_OffByOne(slots, index) ==
    [i \in 1..(Len(slots) - 1) |-> IF i <= index + 1 THEN slots[i] ELSE slots[i + 1]]

(* array.splice(index, 1) *)
Splice(slots, index) ==
    [i \in 1..(Len(slots) - 1) |-> IF i <= index THEN slots[i] ELSE slots[i + 1]]

HasSlot(s, day, index) ==
    day \in DOMAIN s /\ index >= 0 /\ index < Len(s[day]) /\ s[day][index + 1] # NoSlot

AllDay == Slot(T(0, 0), T(24, 0))

(* HasSchedule without the test that some day has a slot *)
HasSchedule_KeysOnly(s) == Cardinality(DOMAIN s) > 0

HasSchedule(s) ==
    /\ Cardinality(DOMAIN s) > 0
    /\ \E d \in DOMAIN s : Len(s[d]) > 0

GetEffectiveSchedule(s) == IF ~HasSchedule(s) THEN [d \in Days |-> <<AllDay>>] ELSE s

(* the days whose slot objects _ensureRealSlotExists leaves shared when it fills *)
(* an empty store: it was all seven with one object                           *)
MaterialisedShares_OneObject == Days

(* the days whose slot objects _ensureRealSlotExists leaves shared when it fills *)
(* an empty store: none, every day gets its own spread copy                    *)
MaterialisedShares == {}

(* the sharing after _ensureRealSlotExists *)
EnsureRealSlotShares(s, shared) == IF ~HasSchedule(s) THEN MaterialisedShares ELSE shared

(* the days an assignment to a field of the slot object at day, index shows in *)
WrittenDays(shared, day, index) ==
    IF day \in shared /\ index = 0 THEN shared ELSE {day}

(* EnsureRealSlotExists without the test that the store is empty *)
EnsureRealSlotExists_Unconditional(s, day, index) == [d \in Days |-> <<AllDay>>]

EnsureRealSlotExists(s, day, index) ==
    IF ~HasSchedule(s) THEN [d \in Days |-> <<AllDay>>]
    ELSE IF ~HasSlot(s, day, index) /\ HasSlot(GetEffectiveSchedule(s), day, index)
         THEN SetDay(s, day, SetIndex(SlotsOf(s, day), index,
                                      GetEffectiveSchedule(s)[day][index + 1]))
         ELSE s

(* Array.prototype.sort is stable; the comparator orders by the minutes of from *)
InsertByFrom(sorted, x) ==
    LET k == Cardinality({i \in 1..Len(sorted) :
                 ParseTimeToMinutes(sorted[i].from) <= ParseTimeToMinutes(x.from)})
    IN  SubSeq(sorted, 1, k) \o <<x>> \o SubSeq(sorted, k + 1, Len(sorted))

RECURSIVE SortByFrom(_)
SortByFrom(slots) ==
    IF Len(slots) <= 1 THEN slots
    ELSE InsertByFrom(SortByFrom(SubSeq(slots, 1, Len(slots) - 1)), slots[Len(slots)])

(* findIndex(s => s.from === startTime && s.to === endTime) *)
FindIndex(slots, startTime, endTime) ==
    LET hits == {i \in 1..Len(slots) : slots[i].from = startTime /\ slots[i].to = endTime}
    IN  IF hits = {} THEN -1 ELSE (CHOOSE i \in hits : \A j \in hits : i <= j) - 1


----------------------------------------------------------------------------
(* The collaborators: the host's snapshots and the transport's answers *)

(* the state objects hass.states[entity] may be: object 1 has no attributes.schedule *)
StateObjs == {1, 2}

(* attributes.schedule of state object h, <<>> when it has none *)
AttrSchedule(h) ==
    IF h <= 1 THEN <<>>
    ELSE <<[d \in {"tuesday"} |-> <<Slot(T(6, 0), T(20, 0))>>]>>

(* schedules the device may hold; the second has a day key with no slot *)
DeviceSchedules ==
    { EmptySchedule,
      [d \in {"monday", "tuesday"} |->
          IF d = "monday" THEN <<>> ELSE <<Slot(T(6, 0), T(20, 0)), Slot(T(23, 45), T(24, 0))>>] }

(* what a schedule/get call answers: a result, or a rejection *)
LoadResponses ==
    {[ok |-> TRUE, schedule |-> s] : s \in DeviceSchedules}
        \cup {[ok |-> FALSE, schedule |-> EmptySchedule]}

(* hass.states[this._config.entity]: 0 stands for undefined *)
EntityState(h) == IF config THEN h ELSE 0

----------------------------------------------------------------------------
(* What render() has put in the DOM.  Every handler that changes a field    *)
(* read here ends with render(), so the DOM follows the fields.             *)

Rendered == config /\ connected

GridShown == Rendered /\ expanded /\ ~loading /\ ~error

DialogShown ==
    Rendered /\ editingSlot # NoEdit /\ HasSlot(schedule, editingSlot.day, editingSlot.index)

SlotShown(day, index) ==
    GridShown /\ ~DialogShown /\ HasSlot(GetEffectiveSchedule(schedule), day, index)

(* the sum of slots.length over the first i days of DAYS *)
RECURSIVE TotalSlots(_, _)
TotalSlots(s, i) ==
    IF i = 0 THEN 0 ELSE TotalSlots(s, i - 1) + Len(SlotsOf(s, DAYS[i]))

(* _getScheduleSummary with both nouns always in the plural *)
GetScheduleSummary_AlwaysPlural(s) ==
    IF ~HasSchedule(s) THEN "Active 24/7 (no schedule set)"
    ELSE LET totalSlots == TotalSlots(s, Len(DAYS))
             activeDays == Cardinality({d \in DOMAIN s : Len(s[d]) > 0})
         IN  ToString(totalSlots) \o " time slots across " \o ToString(activeDays) \o " days"

GetScheduleSummary(s) ==
    IF ~HasSchedule(s) THEN "Active 24/7 (no schedule set)"
    ELSE LET totalSlots == TotalSlots(s, Len(DAYS))
             activeDays == Cardinality({d \in DOMAIN s : Len(s[d]) > 0})
         IN  ToString(totalSlots) \o " time slot" \o (IF totalSlots # 1 THEN "s" ELSE "")
                 \o " across " \o ToString(activeDays) \o " day"
                 \o (IF activeDays # 1 THEN "s" ELSE "")

(* _updateActiveSlotHighlight on day currentDay at minute currentMinutes: the *)
(* indices of the slot elements that carry the class active-now afterwards    *)
UpdateActiveSlotHighlight(currentDay, currentMinutes) ==
    {index \in 0..(Len(SlotsOf(schedule, currentDay)) - 1) :
        LET slot == SlotsOf(schedule, currentDay)[index + 1]
        IN  /\ slot # NoSlot
            /\ currentMinutes >= ParseTimeToMinutes(slot.from)
            /\ currentMinutes < ParseTimeToMinutes(slot.to)
            /\ config /\ ~loading /\ ~error
            /\ HasSlot(GetEffectiveSchedule(schedule), currentDay, index)}

----------------------------------------------------------------------------
(* Transport *)

(* _loadSchedule up to its await: the call is sent unless hass or entity is missing *)
NoLoad == [status |-> "none", response |-> [ok |-> FALSE, schedule |-> EmptySchedule]]

(* render replaces the shadow DOM: every preview element is back at display none *)
Render == removalPreviews' = {}

LoadSchedule(h) ==
    IF h = 0 \/ ~config THEN UNCHANGED <<pendingLoads, newestLoad>>
    ELSE /\ Len(pendingLoads) < loadLimit
         /\ pendingLoads' = Append(pendingLoads, "get")
         /\ newestLoad' = [NoLoad EXCEPT !.status = "pending"]

(* LoadResult without the fallback to the entity's attributes *)
LoadResult_NoFallback(r, s, h) ==
    IF r.ok THEN [schedule |-> r.schedule, error |-> FALSE]
    ELSE [schedule |-> s, error |-> TRUE]

(* _loadSchedule after its await *)
LoadResult(r, s, h) ==
    IF r.ok THEN [schedule |-> r.schedule, error |-> FALSE]
    ELSE IF AttrSchedule(h) # <<>> THEN [schedule |-> AttrSchedule(h)[1], error |-> FALSE]
    ELSE [schedule |-> s, error |-> TRUE]

LoadScheduleDone(i, r) ==
    /\ i \in 1..Len(pendingLoads)
    /\ LET res == LoadResult(r, schedule, EntityState(hass))
       IN  /\ schedule' = res.schedule
           /\ error' = res.error
           /\ loading' = FALSE
    /\ pendingLoads' = [j \in 1..(Len(pendingLoads) - 1) |->
                           IF j < i THEN pendingLoads[j] ELSE pendingLoads[j + 1]]
    /\ UNCHANGED <<hostVars, viewVars, editVars, dragVars, domVars,
                   pendingSaves, lastSaved, alerts, auxVars>>
    /\ Render
    /\ sharedAllDay' = IF error' THEN sharedAllDay ELSE {}
    /\ UNCHANGED loadLimit
    /\ newestLoad' = IF Len(pendingLoads) = 1 THEN NoLoad
                     ELSE IF i = Len(pendingLoads) THEN [status |-> "done", response |-> r]
                     ELSE newestLoad
    /\ UNCHANGED snapshotGate

(* _saveSchedule up to its await, with s the schedule to send *)
SaveSchedule(s) ==
    IF hass = 0 \/ ~config THEN UNCHANGED <<pendingSaves, lastSaved>>
    ELSE /\ pendingSaves' = pendingSaves + 1
         /\ lastSaved' = <<s>>

(* SaveScheduleDone without the reload after a rejection *)
SaveScheduleDone_NoReload(ok) ==
    /\ pendingSaves > 0
    /\ pendingSaves' = pendingSaves - 1
    /\ IF ok THEN UNCHANGED <<pendingLoads, newestLoad, alerts>>
       ELSE alerts' = TRUE /\ UNCHANGED <<pendingLoads, newestLoad>>
    /\ lastSaved' = IF pendingSaves' = 0 THEN <<>> ELSE lastSaved
    /\ UNCHANGED <<hostVars, schedule, loadVars, viewVars, editVars, dragVars, domVars,
                   auxVars>>
    /\ UNCHANGED removalPreviews
    /\ UNCHANGED sharedAllDay
    /\ UNCHANGED loadLimit
    /\ UNCHANGED snapshotGate

(* _saveSchedule after its await *)
SaveScheduleDone(ok) ==
    /\ pendingSaves > 0
    /\ pendingSaves' = pendingSaves - 1
    /\ IF ok THEN UNCHANGED <<pendingLoads, newestLoad, alerts>>
       ELSE alerts' = TRUE /\ LoadSchedule(hass)
    /\ lastSaved' = IF pendingSaves' = 0 THEN <<>> ELSE lastSaved
    /\ UNCHANGED <<hostVars, schedule, loadVars, viewVars, editVars, dragVars, domVars,
                   auxVars>>
    /\ UNCHANGED removalPreviews
    /\ UNCHANGED sharedAllDay
    /\ UNCHANGED loadLimit
    /\ snapshotGate' = IF ok \/ hass = 0 \/ ~config THEN snapshotGate ELSE "none"

----------------------------------------------------------------------------
(* Host *)

SetConfig_AssignsFirst(hasEntity) ==
    /\ config' = hasEntity
    /\ configThrew' = ~hasEntity
    /\ UNCHANGED <<hass, connected, schedule, loadVars, viewVars, editVars, dragVars,
                   domVars, netVars, auxVars>>
    /\ IF hasEntity THEN Render ELSE UNCHANGED removalPreviews
    /\ UNCHANGED sharedAllDay
    /\ UNCHANGED snapshotGate

SetConfig(hasEntity) ==
    /\ IF hasEntity THEN config' = TRUE ELSE UNCHANGED config
    /\ configThrew' = ~hasEntity
    /\ UNCHANGED <<hass, connected, schedule, loadVars, viewVars, editVars, dragVars,
                   domVars, netVars, auxVars>>
    /\ IF hasEntity THEN Render ELSE UNCHANGED removalPreviews
    /\ UNCHANGED sharedAllDay
    /\ UNCHANGED snapshotGate

(* ReloadOnHass without the test of the edit session *)
ReloadOnHass_NoEditGate(oldHass, newHass) ==
    /\ oldHass = 0 \/ EntityState(oldHass) # EntityState(newHass)
    /\ config /\ ~isDragging

ReloadOnHass(oldHass, newHass) ==
    /\ oldHass = 0 \/ EntityState(oldHass) # EntityState(newHass)
    /\ config /\ ~isDragging /\ editingSlot = NoEdit

SetHass(h) ==
    /\ h \in StateObjs
    /\ hass' = h
    /\ IF ReloadOnHass(hass, h) THEN LoadSchedule(h)
       ELSE UNCHANGED <<pendingLoads, newestLoad>>
    /\ UNCHANGED <<config, configThrew, connected, schedule, loadVars, viewVars, editVars,
                   dragVars, domVars, pendingSaves, lastSaved, alerts, auxVars>>
    /\ UNCHANGED removalPreviews
    /\ UNCHANGED sharedAllDay
    /\ UNCHANGED loadLimit
    /\ snapshotGate' =
           IF ReloadOnHass(hass, h) THEN "none"
           ELSE IF config /\ (hass = 0 \/ EntityState(hass) # EntityState(h)) THEN "skipped"
           ELSE IF snapshotGate = "skipped" /\ config /\ ~isDragging /\ editingSlot = NoEdit
           THEN "ignored"
           ELSE snapshotGate

StartCurrentTimeUpdates ==
    IF ~currentTimeInterval
    THEN currentTimeInterval' = TRUE /\ intervals' = intervals + 1
    ELSE UNCHANGED <<currentTimeInterval, intervals>>

(* _stopCurrentTimeUpdates that forgets the handle without clearing the timer *)
StopCurrentTimeUpdates_NoClear ==
    /\ currentTimeInterval' = FALSE
    /\ UNCHANGED intervals

StopCurrentTimeUpdates ==
    IF currentTimeInterval
    THEN currentTimeInterval' = FALSE /\ intervals' = intervals - 1
    ELSE UNCHANGED <<currentTimeInterval, intervals>>

ConnectedCallback ==
    /\ ~connected
    /\ connected' = TRUE
    /\ IF expanded THEN StartCurrentTimeUpdates
       ELSE UNCHANGED <<currentTimeInterval, intervals>>
    /\ UNCHANGED <<config, configThrew, hass, schedule, loadVars, expanded, editVars,
                   dragVars, domVars, netVars, auxVars>>
    /\ UNCHANGED removalPreviews
    /\ UNCHANGED sharedAllDay
    /\ UNCHANGED snapshotGate

DisconnectedCallback ==
    /\ connected
    /\ connected' = FALSE
    /\ StopCurrentTimeUpdates
    /\ UNCHANGED <<config, configThrew, hass, schedule, loadVars, expanded, editVars,
                   dragVars, domVars, netVars, auxVars>>
    /\ UNCHANGED removalPreviews
    /\ UNCHANGED sharedAllDay
    /\ UNCHANGED snapshotGate


----------------------------------------------------------------------------
(* User input *)

(* the days the user acts on *)
GestureDays == {"monday", "tuesday"}

(* clientY - rect.top of a mousedown on a column, which lies inside it *)
DownYs == {0, 67, 198}

(* clientY - rect.top of a mousemove on the document *)
MoveYs == {68, 91, 151, 250}

(* values of the dialog's time inputs *)
DialogTimes == {EmptyTime, T(9, 0), T(9, 10), T(17, 0)}

Gesture == gesturesLeft > 0 /\ gesturesLeft' = gesturesLeft - 1

----------------------------------------------------------------------------
(* InteractionController *)

(* the region _updateDragPreview marks as removed, <<>> when it marks none *)
RemovalZone(type, original, currentMin) ==
    IF type = "resize-top" /\ currentMin > ParseTimeToMinutes(original.from)
    THEN <<ParseTimeToMinutes(original.from), currentMin>>
    ELSE IF type = "resize-bottom" /\ currentMin < ParseTimeToMinutes(original.to)
    THEN <<currentMin, ParseTimeToMinutes(original.to)>>
    ELSE <<>>

(* _updateDragPreview with the drag state given: the removal previews afterwards *)
UpdateDragPreview(dragging, type, day, index, original, currentMin) ==
    IF ~dragging \/ day = "none" THEN removalPreviews
    ELSE IF ~config \/ loading \/ error THEN removalPreviews    \* no .drag-preview element
    ELSE IF type # "create" /\ ~HasSlot(schedule, day, index)
    THEN removalPreviews                                        \* TypeError: the slot is gone
    ELSE LET zone == RemovalZone(type, original, currentMin)
             others == {p \in removalPreviews : p.day # day}
         IN  IF zone = <<>> THEN others
             ELSE others \cup {[day |-> day, top |-> zone[1], bottom |-> zone[2]]}

HandleHeaderClick ==
    /\ Rendered /\ ~DialogShown
    /\ expanded' = ~expanded
    /\ IF expanded' THEN StartCurrentTimeUpdates ELSE StopCurrentTimeUpdates
    /\ UNCHANGED <<hostVars, schedule, loadVars, editVars, dragVars, domVars, netVars, auxVars>>
    /\ Render
    /\ UNCHANGED sharedAllDay
    /\ UNCHANGED snapshotGate

HandleRefreshClick ==
    /\ GridShown /\ ~DialogShown
    /\ LoadSchedule(hass)
    /\ UNCHANGED <<hostVars, schedule, loadVars, viewVars, editVars, dragVars, domVars,
                   pendingSaves, lastSaved, alerts, auxVars>>
    /\ UNCHANGED removalPreviews
    /\ UNCHANGED sharedAllDay
    /\ UNCHANGED loadLimit
    /\ snapshotGate' = IF hass = 0 \/ ~config THEN snapshotGate ELSE "none"

(* _handleSlotClick without the test of _isDragging *)
HandleSlotClick_NoDragTest(day, index) ==
    /\ SlotShown(day, index)
    /\ Gesture
    /\ schedule' = EnsureRealSlotExists(schedule, day, index)
    /\ editingSlot' = [day |-> day, index |-> index]
    /\ isNewSlot' = FALSE
    /\ UNCHANGED <<hostVars, loadVars, viewVars, dragVars, domVars, netVars, pre>>
    /\ Render
    /\ sharedAllDay' = EnsureRealSlotShares(schedule, sharedAllDay)
    /\ UNCHANGED snapshotGate

HandleSlotClick(day, index) ==
    /\ SlotShown(day, index)
    /\ Gesture
    /\ IF isDragging
       THEN UNCHANGED <<schedule, editVars>>
       ELSE /\ schedule' = EnsureRealSlotExists(schedule, day, index)
            /\ editingSlot' = [day |-> day, index |-> index]
            /\ isNewSlot' = FALSE
    /\ UNCHANGED <<hostVars, loadVars, viewVars, dragVars, domVars, netVars, pre>>
    /\ IF isDragging THEN UNCHANGED removalPreviews ELSE Render
    /\ sharedAllDay' = IF isDragging THEN sharedAllDay ELSE EnsureRealSlotShares(schedule, sharedAllDay)
    /\ UNCHANGED snapshotGate

HandleDayMouseDown(day, y) ==
    /\ GridShown /\ ~DialogShown
    /\ Len(SlotsOf(schedule, day)) < MaxSlots
    /\ Gesture
    /\ columnRects' = columnRects \cup {day}
    /\ isDragging' = TRUE
    /\ dragType' = "create"
    /\ dragDay' = day
    /\ dragStartMinutes' = RoundToInterval(YToMinutes(y))
    /\ dragCurrentMinutes' = RoundToInterval(YToMinutes(y))
    /\ docListeners' = TRUE
    /\ pre' = <<schedule>>
    /\ UNCHANGED <<hostVars, schedule, loadVars, viewVars, editVars, dragSlotIndex,
                   dragOriginalSlot, netVars>>
    /\ removalPreviews' = UpdateDragPreview(TRUE, "create", day, -1, dragOriginalSlot,
                                            dragCurrentMinutes')
    /\ UNCHANGED sharedAllDay
    /\ UNCHANGED snapshotGate

HandleSlotEdgeMouseDown(day, index, edge) ==
    /\ SlotShown(day, index)
    /\ Gesture
    /\ columnRects' = columnRects \cup {day}
    /\ schedule' = EnsureRealSlotExists(schedule, day, index)
    /\ LET slot == schedule'[day][index + 1]
       IN  /\ isDragging' = TRUE
           /\ dragType' = IF edge = "top" THEN "resize-top" ELSE "resize-bottom"
           /\ dragDay' = day
           /\ dragSlotIndex' = index
           /\ dragOriginalSlot' = slot
           /\ dragStartMinutes' = IF edge = "top" THEN ParseTimeToMinutes(slot.from)
                                                  ELSE ParseTimeToMinutes(slot.to)
           /\ dragCurrentMinutes' = dragStartMinutes'
    /\ docListeners' = TRUE
    /\ pre' = <<>>
    /\ UNCHANGED <<hostVars, loadVars, viewVars, editVars, netVars>>
    /\ removalPreviews' = {p \in removalPreviews : p.day # day}
    /\ sharedAllDay' = EnsureRealSlotShares(schedule, sharedAllDay)
    /\ UNCHANGED snapshotGate

(* the value _handleMouseMove gives _dragCurrentMinutes *)
DragMinutes(type, minutes, slot) ==
    IF type = "create" THEN minutes
    ELSE IF type = "resize-top" THEN Min(minutes, ParseTimeToMinutes(slot.to) - Interval)
    ELSE Max(minutes, ParseTimeToMinutes(slot.from) + Interval)

HandleMouseMove(y) ==
    /\ docListeners
    /\ IF ~isDragging \/ dragDay \notin columnRects
       THEN UNCHANGED dragCurrentMinutes
       ELSE IF dragType = "create"
       THEN dragCurrentMinutes' = DragMinutes(dragType, RoundToInterval(YToMinutes(y)), NoSlot)
       ELSE IF HasSlot(schedule, dragDay, dragSlotIndex)
       THEN dragCurrentMinutes' =
                DragMinutes(dragType, RoundToInterval(YToMinutes(y)),
                            schedule[dragDay][dragSlotIndex + 1])
       ELSE UNCHANGED dragCurrentMinutes     \* TypeError: the slot is gone
    /\ UNCHANGED <<hostVars, schedule, loadVars, viewVars, editVars, isDragging, dragType,
                   dragDay, dragStartMinutes, dragSlotIndex, dragOriginalSlot, domVars,
                   netVars, auxVars>>
    /\ removalPreviews' =
           IF ~isDragging \/ dragDay \notin columnRects THEN removalPreviews
           ELSE UpdateDragPreview(isDragging, dragType, dragDay, dragSlotIndex,
                                  dragOriginalSlot, dragCurrentMinutes')
    /\ UNCHANGED sharedAllDay
    /\ UNCHANGED snapshotGate

ResetDrag ==
    /\ isDragging' = FALSE
    /\ dragType' = "none"
    /\ dragDay' = "none"
    /\ dragStartMinutes' = -1
    /\ dragCurrentMinutes' = -1
    /\ dragSlotIndex' = -1
    /\ dragOriginalSlot' = NoSlot

(* the slot a create drag commits *)
CreatedSlot(startMin, currentMin) ==
    LET topMin == Min(startMin, currentMin)
        bottomMin == Max(startMin, currentMin)
        click == bottomMin - topMin < Interval
        finalStartMin == IF click THEN RoundToInterval(startMin) ELSE topMin
        finalEndMin == IF click THEN Min(finalStartMin + Interval, MinutesPerDay) ELSE bottomMin
    IN  Slot(MinutesToTime(finalStartMin), MinutesToTime(finalEndMin))

(* push without the sort *)
InsertSlot_NoSort(slots, slot) == Append(slots, slot)

(* the day after push and sort *)
InsertSlot(slots, slot) == SortByFrom(Append(slots, slot))

(* the slot a resize commits *)
ResizedSlot(type, slot, currentMin) ==
    IF type = "resize-top" THEN [slot EXCEPT !.from = MinutesToTime(currentMin)]
    ELSE [slot EXCEPT !.to = MinutesToTime(currentMin)]

HandleMouseUp ==
    /\ docListeners
    /\ docListeners' = FALSE
    /\ IF ~isDragging
       THEN UNCHANGED <<schedule, editVars, dragVars, pendingSaves, lastSaved, pre>>
       ELSE IF dragType = "create"
       THEN LET slot == CreatedSlot(dragStartMinutes, dragCurrentMinutes)
                slots == InsertSlot(SlotsOf(schedule, dragDay), slot)
            IN  /\ Len(SlotsOf(schedule, dragDay)) < MaxSlots
                /\ schedule' = SetDay(schedule, dragDay, slots)
                /\ ResetDrag
                /\ editingSlot' = [day |-> dragDay, index |-> FindIndex(slots, slot.from, slot.to)]
                /\ isNewSlot' = TRUE
                /\ UNCHANGED <<pendingSaves, lastSaved, pre>>
       ELSE IF HasSlot(schedule, dragDay, dragSlotIndex)
       THEN /\ schedule' =
                   [d \in DOMAIN schedule |->
                       IF d \in WrittenDays(sharedAllDay, dragDay, dragSlotIndex)
                       THEN SetIndex(schedule[d], dragSlotIndex,
                                     ResizedSlot(dragType, schedule[dragDay][dragSlotIndex + 1],
                                                 dragCurrentMinutes))
                       ELSE schedule[d]]
            /\ SaveSchedule(schedule')
            /\ ResetDrag
            /\ pre' = <<>>
            /\ UNCHANGED editVars
       ELSE \* TypeError: the slot is gone; the handler stops before the reset
            UNCHANGED <<schedule, editVars, dragVars, pendingSaves, lastSaved, pre>>
    /\ UNCHANGED <<hostVars, loadVars, viewVars, columnRects, pendingLoads, newestLoad, loadLimit, alerts, gesturesLeft>>
    /\ IF isDragging /\ (dragType = "create" \/ HasSlot(schedule, dragDay, dragSlotIndex))
       THEN Render ELSE UNCHANGED removalPreviews
    /\ sharedAllDay' = IF isDragging /\ dragType = "create" THEN sharedAllDay \ {dragDay}
                       ELSE sharedAllDay
    /\ UNCHANGED snapshotGate

IgnoredMouseUp_Saves ==
    /\ ~docListeners
    /\ Gesture
    /\ SaveSchedule(schedule)
    /\ UNCHANGED <<hostVars, schedule, loadVars, viewVars, editVars, dragVars, domVars,
                   pendingLoads, newestLoad, loadLimit, alerts, pre>>
    /\ UNCHANGED removalPreviews
    /\ UNCHANGED sharedAllDay
    /\ UNCHANGED snapshotGate

(* a mouseup on the document while the card's mouseup listener is not registered *)
(* (it is registered by a pointer-down and removed by the first mouseup): the    *)
(* listeners stay removed and nothing else runs                                  *)
IgnoredMouseUp ==
    /\ ~docListeners
    /\ Gesture
    /\ UNCHANGED <<hostVars, schedule, loadVars, viewVars, editVars, dragVars, domVars,
                   netVars, pre>>
    /\ UNCHANGED removalPreviews
    /\ UNCHANGED sharedAllDay
    /\ UNCHANGED snapshotGate

(* _handleSlotDelete that sends the save before it removes the slot *)
HandleSlotDelete_SavesFirst ==
    /\ DialogShown /\ ~isNewSlot
    /\ LET day == editingSlot.day
           slots == Splice(schedule[day], editingSlot.index)
       IN  schedule' = IF Len(slots) = 0 THEN DeleteDay(schedule, day)
                       ELSE SetDay(schedule, day, slots)
    /\ editingSlot' = NoEdit
    /\ isNewSlot' = FALSE
    /\ SaveSchedule(schedule)
    /\ pre' = <<>>
    /\ UNCHANGED <<hostVars, loadVars, viewVars, dragVars, domVars, pendingLoads, newestLoad, loadLimit, alerts,
                   gesturesLeft>>
    /\ Render
    /\ sharedAllDay' = sharedAllDay \ {editingSlot.day}
    /\ UNCHANGED snapshotGate

HandleSlotDelete ==
    /\ DialogShown /\ ~isNewSlot
    /\ LET day == editingSlot.day
           slots == Splice(schedule[day], editingSlot.index)
       IN  schedule' = IF Len(slots) = 0 THEN DeleteDay(schedule, day)
                       ELSE SetDay(schedule, day, slots)
    /\ editingSlot' = NoEdit
    /\ isNewSlot' = FALSE
    /\ SaveSchedule(schedule')
    /\ pre' = <<>>
    /\ UNCHANGED <<hostVars, loadVars, viewVars, dragVars, domVars, pendingLoads, newestLoad, loadLimit, alerts,
                   gesturesLeft>>
    /\ Render
    /\ sharedAllDay' = sharedAllDay \ {editingSlot.day}
    /\ UNCHANGED snapshotGate

(* UpdateAccepted without the test from < to *)
UpdateAccepted_NoOrderTest(from, to) == from # EmptyTime /\ to # EmptyTime

(* the test _handleSlotUpdate and its caller make *)
UpdateAccepted(from, to) == from # EmptyTime /\ to # EmptyTime /\ TimeLess(from, to)

HandleSlotUpdate(from, to) ==
    /\ DialogShown
    /\ IF UpdateAccepted(from, to)
       THEN /\ schedule' = SetDay(schedule, editingSlot.day,
                               SetIndex(schedule[editingSlot.day], editingSlot.index,
                                        Slot(from, to)))
            /\ editingSlot' = NoEdit
            /\ isNewSlot' = FALSE
            /\ SaveSchedule(schedule')
            /\ pre' = <<>>
       ELSE UNCHANGED <<schedule, editVars, pendingSaves, lastSaved, pre>>
    /\ UNCHANGED <<hostVars, loadVars, viewVars, dragVars, domVars, pendingLoads, newestLoad, loadLimit, alerts,
                   gesturesLeft>>
    /\ IF UpdateAccepted(from, to) THEN Render ELSE UNCHANGED removalPreviews
    /\ sharedAllDay' = IF UpdateAccepted(from, to) THEN sharedAllDay \ {editingSlot.day}
                       ELSE sharedAllDay
    /\ UNCHANGED snapshotGate

(* CloseDialogSchedule without the deletion of the day that became empty *)
CloseDialogSchedule_KeepsKey(s, edit, isNew) ==
    IF edit # NoEdit /\ isNew /\ HasSlot(s, edit.day, edit.index)
    THEN SetDay(s, edit.day, Splice(s[edit.day], edit.index))
    ELSE s

(* the store after _closeDialog *)
CloseDialogSchedule(s, edit, isNew) ==
    IF edit # NoEdit /\ isNew /\ HasSlot(s, edit.day, edit.index)
    THEN LET slots == Splice(s[edit.day], edit.index)
         IN  IF Len(slots) = 0 THEN DeleteDay(s, edit.day) ELSE SetDay(s, edit.day, slots)
    ELSE s

CloseDialog ==
    /\ DialogShown
    /\ schedule' = CloseDialogSchedule(schedule, editingSlot, isNewSlot)
    /\ editingSlot' = NoEdit
    /\ isNewSlot' = FALSE
    /\ pre' = <<>>
    /\ UNCHANGED <<hostVars, loadVars, viewVars, dragVars, domVars, netVars, gesturesLeft>>
    /\ Render
    /\ sharedAllDay' = IF isNewSlot THEN sharedAllDay \ {editingSlot.day} ELSE sharedAllDay
    /\ UNCHANGED snapshotGate

----------------------------------------------------------------------------
(* The card after its constructor *)

Init ==
    /\ config = FALSE
    /\ sharedAllDay = {}
    /\ removalPreviews = {}
    /\ configThrew = FALSE
    /\ hass = 0
    /\ connected = FALSE
    /\ schedule = EmptySchedule
    /\ loading = TRUE
    /\ error = FALSE
    /\ expanded = FALSE
    /\ currentTimeInterval = FALSE
    /\ intervals = 0
    /\ editingSlot = NoEdit
    /\ isNewSlot = FALSE
    /\ isDragging = FALSE
    /\ dragType = "none"
    /\ dragDay = "none"
    /\ dragStartMinutes = -1
    /\ dragCurrentMinutes = -1
    /\ dragSlotIndex = -1
    /\ dragOriginalSlot = NoSlot
    /\ columnRects = {}
    /\ docListeners = FALSE
    /\ pendingLoads = <<>>
    /\ newestLoad = NoLoad
    /\ snapshotGate = "none"
    /\ loadLimit = MaxPendingLoads
    /\ pendingSaves = 0
    /\ lastSaved = <<>>
    /\ alerts = FALSE
    /\ gesturesLeft = MaxGestures
    /\ pre = <<>>

(* the user's actions on the grid and the dialog, with the inputs drawn from the given sets *)
UIStep(days, downYs, moveYs, times) ==
    \/ \E d \in days, i \in 0..(MaxSlots - 1) : HandleSlotClick(d, i)
    \/ \E d \in days, y \in downYs : HandleDayMouseDown(d, y)
    \/ \E d \in days, i \in 0..(MaxSlots - 1), e \in {"top", "bottom"} :
           HandleSlotEdgeMouseDown(d, i, e)
    \/ \E y \in moveYs : HandleMouseMove(y)
    \/ HandleMouseUp
    \/ HandleSlotDelete
    \/ \E f \in times, t \in times : HandleSlotUpdate(f, t)
    \/ CloseDialog

HostStep ==
    \/ \E e \in BOOLEAN : SetConfig(e)
    \/ \E h \in StateObjs : SetHass(h)
    \/ ConnectedCallback
    \/ DisconnectedCallback
    \/ HandleHeaderClick

NetStep ==
    \/ \E i \in 1..MaxPendingLoads, r \in LoadResponses : LoadScheduleDone(i, r)
    \/ \E ok \in BOOLEAN : SaveScheduleDone(ok)
    \/ HandleRefreshClick

Next ==
    \/ HostStep
    \/ NetStep
    \/ UIStep({"tuesday"}, {67}, {151}, {T(9, 0), T(9, 10)})
    \/ IgnoredMouseUp

Spec == Init /\ [][Next]_vars

(* the host and the header alone: configuration, state objects, attachment, *)
(* expand and collapse, and the loads they start                            *)
NextHost ==
    \/ HostStep
    \/ \E i \in 1..MaxPendingLoads, r \in LoadResponses : LoadScheduleDone(i, r)
    \/ HandleRefreshClick

SpecHost == Init /\ [][NextHost]_vars

(* The card configured, attached, expanded and loaded, then driven by the user alone *)
InitialSchedules ==
    DeviceSchedules \cup
    { [d \in {"monday"} |-> <<Slot(T(10, 0), T(10, 30))>>],
      [d \in {"tuesday"} |-> <<Slot(T(6, 0), T(20, 0))>>] }

InitUI ==
    /\ config = TRUE
    /\ sharedAllDay = {}
    /\ removalPreviews = {}
    /\ configThrew = FALSE
    /\ hass = 1
    /\ connected = TRUE
    /\ schedule \in InitialSchedules
    /\ loading = FALSE
    /\ error = FALSE
    /\ expanded = TRUE
    /\ currentTimeInterval = TRUE
    /\ intervals = 1
    /\ editingSlot = NoEdit
    /\ isNewSlot = FALSE
    /\ isDragging = FALSE
    /\ dragType = "none"
    /\ dragDay = "none"
    /\ dragStartMinutes = -1
    /\ dragCurrentMinutes = -1
    /\ dragSlotIndex = -1
    /\ dragOriginalSlot = NoSlot
    /\ columnRects = {}
    /\ docListeners = FALSE
    /\ pendingLoads = <<>>
    /\ newestLoad = NoLoad
    /\ snapshotGate = "none"
    /\ loadLimit = MaxPendingLoads
    /\ pendingSaves = 0
    /\ lastSaved = <<>>
    /\ alerts = FALSE
    /\ gesturesLeft = MaxGestures
    /\ pre = <<>>

NextUI == UIStep(GestureDays, DownYs, MoveYs, DialogTimes)

SpecUI == InitUI /\ [][NextUI]_vars

(* The card attached and then configured, fed snapshots and transport answers while *)
(* the user acts; the card stays attached                                           *)
InitNet ==
    /\ config \in BOOLEAN
    /\ sharedAllDay = {}
    /\ removalPreviews = {}
    /\ configThrew = FALSE
    /\ expanded = config
    /\ currentTimeInterval = config
    /\ intervals = IF config THEN 1 ELSE 0
    /\ hass = 0
    /\ connected = TRUE
    /\ schedule = EmptySchedule
    /\ loading = TRUE
    /\ error = FALSE
    /\ editingSlot = NoEdit
    /\ isNewSlot = FALSE
    /\ isDragging = FALSE
    /\ dragType = "none"
    /\ dragDay = "none"
    /\ dragStartMinutes = -1
    /\ dragCurrentMinutes = -1
    /\ dragSlotIndex = -1
    /\ dragOriginalSlot = NoSlot
    /\ columnRects = {}
    /\ docListeners = FALSE
    /\ pendingLoads = <<>>
    /\ newestLoad = NoLoad
    /\ snapshotGate = "none"
    /\ loadLimit = MaxPendingLoads
    /\ pendingSaves = 0
    /\ lastSaved = <<>>
    /\ alerts = FALSE
    /\ gesturesLeft = MaxNetGestures
    /\ pre = <<>>

NextNet ==
    \/ \E h \in StateObjs : SetHass(h)
    \/ NetStep
    \/ UIStep({"tuesday"}, {67}, {151}, {T(9, 0), T(9, 10)})
    \/ IgnoredMouseUp

SpecNet == InitNet /\ [][NextNet]_vars

----------------------------------------------------------------------------
(* Loads racing each other: snapshots and Reload clicks start them while *)
(* earlier ones are in flight, and the responses arrive in any order     *)

InitLoads ==
    /\ config = FALSE
    /\ sharedAllDay = {}
    /\ removalPreviews = {}
    /\ configThrew = FALSE
    /\ hass = 0
    /\ connected = FALSE
    /\ schedule = EmptySchedule
    /\ loading = TRUE
    /\ error = FALSE
    /\ expanded = FALSE
    /\ currentTimeInterval = FALSE
    /\ intervals = 0
    /\ editingSlot = NoEdit
    /\ isNewSlot = FALSE
    /\ isDragging = FALSE
    /\ dragType = "none"
    /\ dragDay = "none"
    /\ dragStartMinutes = -1
    /\ dragCurrentMinutes = -1
    /\ dragSlotIndex = -1
    /\ dragOriginalSlot = NoSlot
    /\ columnRects = {}
    /\ docListeners = FALSE
    /\ pendingLoads = <<>>
    /\ newestLoad = NoLoad
    /\ snapshotGate = "none"
    /\ loadLimit = MaxRaceLoads
    /\ pendingSaves = 0
    /\ lastSaved = <<>>
    /\ alerts = FALSE
    /\ gesturesLeft = 0
    /\ pre = <<>>

NextLoads ==
    \/ HostStep
    \/ \E i \in 1..MaxRaceLoads, r \in LoadResponses : LoadScheduleDone(i, r)
    \/ HandleRefreshClick

SpecLoads == InitLoads /\ [][NextLoads]_vars

----------------------------------------------------------------------------
(* Claims *)

(* C1: a delivered hass snapshot starts a schedule load if and only if it is the *)
(* first snapshot or the entity's state object changed identity, and an entity   *)
(* is configured, and neither a drag nor an edit session is active; the stored   *)
(* schedule is left unchanged by the delivery in every case.                     *)
C1_SetHassLoadsIffGate ==
    [][\A h \in StateObjs :
          SetHass(h) =>
              /\ schedule' = schedule
              /\ Len(pendingLoads') \in {Len(pendingLoads), Len(pendingLoads) + 1}
              /\ (Len(pendingLoads') = Len(pendingLoads) + 1) <=>
                     /\ hass = 0 \/ hass # h
                     /\ config
                     /\ ~isDragging
                     /\ editingSlot = NoEdit]_vars

(* an identity change delivered after the first load was answered has started a load *)
C1_Witness ==
    /\ hass = 2
    /\ ~loading
    /\ Len(pendingLoads) = 1
    /\ editingSlot = NoEdit /\ ~isDragging

(* C2: while a drag session is active, no completion of a load call changes the *)
(* stored schedule.                                                             *)
C2_NoLoadMutatesWhileDragging ==
    [][(isDragging /\ Len(pendingLoads') < Len(pendingLoads)) => schedule' = schedule]_vars

(* C3: while the edit dialog is open, nothing but Save, Delete or Cancel changes *)
(* the stored schedule.                                                          *)
C3_NoMutationWhileEditing ==
    [][(DialogShown /\ editingSlot' = editingSlot) => schedule' = schedule]_vars

(* C4: the effective schedule is one 00:00-24:00 slot on each of the seven days *)
(* when no day of the store has a slot, and is the stored schedule otherwise.  *)
C4_EffectiveIsProjection ==
    LET eff == GetEffectiveSchedule(schedule)
    IN  IF \A d \in DOMAIN schedule : schedule[d] = <<>>
        THEN /\ DOMAIN eff = Days
             /\ \A d \in Days : eff[d] = <<[from |-> <<0, 0>>, to |-> <<24, 0>>]>>
        ELSE eff = schedule

(* a store that has a day key and no slot at all *)
C4_Witness ==
    /\ DOMAIN schedule # {}
    /\ \A d \in DOMAIN schedule : schedule[d] = <<>>

(* C5: materialising twice gives the same store as materialising once, for every *)
(* (day, index); on a store that has a slot, materialising a displayed slot      *)
(* changes nothing.                                                              *)
C5_MaterialiseIdempotent ==
    \A d \in Days, i \in 0..MaxSlots :
        LET once == EnsureRealSlotExists(schedule, d, i)
        IN  /\ EnsureRealSlotExists(once, d, i) = once
            /\ (/\ \E e \in DOMAIN schedule : schedule[e] # <<>>
                /\ d \in DOMAIN schedule
                /\ i < Len(schedule[d])) => once = schedule

(* a click on a displayed slot has materialised the empty store *)
C5_Witness ==
    /\ editingSlot # NoEdit
    /\ ~isNewSlot
    /\ DOMAIN schedule = Days
    /\ \A d \in Days : schedule[d] = <<[from |-> <<0, 0>>, to |-> <<24, 0>>]>>

(* C6: a create gesture that starts from a store without any slot leaves the     *)
(* dragged day with the all-day slot plus the new slot and every other day with  *)
(* exactly the all-day slot.                                                     *)
C6_CreateMaterialisesAllDays ==
    [][(/\ HandleMouseUp
        /\ isDragging /\ dragType = "create"
        /\ pre # <<>>
        /\ \A d \in DOMAIN pre[1] : pre[1][d] = <<>>)
       => /\ \A d \in Days \ {dragDay} : SlotsOf(schedule', d) = <<AllDay>>
          /\ Len(SlotsOf(schedule', dragDay)) = 2
          /\ \E i \in 1..2 : schedule'[dragDay][i] = AllDay]_vars

(* C7: a click without drag on a column adds one slot to the day, which starts at *)
(* the rounded pointer minute, lasts 15 minutes and ends at or before 1440.       *)
C7_ClickCreatesQuarterHour ==
    [][(/\ HandleMouseUp
        /\ isDragging /\ dragType = "create"
        /\ dragCurrentMinutes - dragStartMinutes < Interval
        /\ dragStartMinutes - dragCurrentMinutes < Interval)
       => LET slot == schedule'[dragDay][editingSlot'.index + 1]
          IN  /\ Len(schedule'[dragDay]) = Len(SlotsOf(schedule, dragDay)) + 1
              /\ ParseTimeToMinutes(slot.from) = dragStartMinutes
              /\ ParseTimeToMinutes(slot.to) - ParseTimeToMinutes(slot.from) = 15
              /\ ParseTimeToMinutes(slot.to) <= 1440]_vars

(* C8: a create drag whose rounded start and current minutes differ by at least 15 *)
(* inserts the slot [min(start, current), max(start, current)]; on pointer-up the  *)
(* drag session is cleared and the dialog opens on the inserted slot as new.       *)
C8_DragCreatesSpan ==
    [][(/\ HandleMouseUp
        /\ isDragging /\ dragType = "create"
        /\ (dragCurrentMinutes - dragStartMinutes >= Interval
            \/ dragStartMinutes - dragCurrentMinutes >= Interval))
       => LET slot == schedule'[dragDay][editingSlot'.index + 1]
          IN  /\ Len(schedule'[dragDay]) = Len(SlotsOf(schedule, dragDay)) + 1
              /\ ParseTimeToMinutes(slot.from) = Min(dragStartMinutes, dragCurrentMinutes)
              /\ ParseTimeToMinutes(slot.to) = Max(dragStartMinutes, dragCurrentMinutes)
              /\ ~isDragging'
              /\ editingSlot'.day = dragDay
              /\ isNewSlot']_vars

(* C9: cancelling the dialog of a newly created slot leaves every day with the   *)
(* slots it had before the pointer-down, without a key for the day if it had no  *)
(* slot, and neither the pointer-down, nor the pointer-up, nor the Cancel sends  *)
(* a save.                                                                       *)
C9_CancelRollsBackCreate ==
    [][/\ (CloseDialog /\ isNewSlot /\ pre # <<>>)
          => /\ \A d \in Days : SlotsOf(schedule', d) = SlotsOf(pre[1], d)
             /\ (SlotsOf(pre[1], editingSlot.day) = <<>>
                    => editingSlot.day \notin DOMAIN schedule')
             /\ pendingSaves' = pendingSaves /\ lastSaved' = lastSaved
       /\ ((HandleMouseUp /\ isDragging /\ dragType = "create")
              \/ (\E d \in GestureDays, y \in DownYs : HandleDayMouseDown(d, y)))
          => (pendingSaves' = pendingSaves /\ lastSaved' = lastSaved)]_vars

(* C10: after a pointer-move of a resize-top drag currentMin <= to - 15, after a  *)
(* pointer-move of a resize-bottom drag currentMin >= from + 15, and the slot a   *)
(* resize commits lasts at least 15 minutes (if it did before the drag).          *)
C10_ResizeKeepsQuarterHour ==
    [][(isDragging /\ dragType \in {"resize-top", "resize-bottom"}
           /\ HasSlot(schedule, dragDay, dragSlotIndex))
       => LET slot == schedule[dragDay][dragSlotIndex + 1]
          IN  /\ ((\E y \in MoveYs : HandleMouseMove(y)) /\ dragType = "resize-top")
                    => dragCurrentMinutes' <= ParseTimeToMinutes(slot.to) - 15
              /\ ((\E y \in MoveYs : HandleMouseMove(y)) /\ dragType = "resize-bottom")
                    => dragCurrentMinutes' >= ParseTimeToMinutes(slot.from) + 15
              /\ (HandleMouseUp
                     /\ ParseTimeToMinutes(slot.to) - ParseTimeToMinutes(slot.from) >= 15)
                    => LET new == schedule'[dragDay][dragSlotIndex + 1]
                       IN  ParseTimeToMinutes(new.to) - ParseTimeToMinutes(new.from) >= 15]_vars

(* C11: the pointer-up of a resize sets the dragged edge of the target slot to   *)
(* the time of currentMin (from for resize-top, to for resize-bottom), leaves    *)
(* its other edge as it was, and leaves every other slot of every day unchanged. *)
C11_ResizeCommitsDraggedEdge ==
    [][(/\ HandleMouseUp
        /\ isDragging /\ dragType \in {"resize-top", "resize-bottom"}
        /\ HasSlot(schedule, dragDay, dragSlotIndex))
       => LET old == schedule[dragDay][dragSlotIndex + 1]
              new == schedule'[dragDay][dragSlotIndex + 1]
          IN  /\ DOMAIN schedule' = DOMAIN schedule
              /\ \A d \in DOMAIN schedule : Len(schedule'[d]) = Len(schedule[d])
              /\ \A d \in DOMAIN schedule : \A i \in 1..Len(schedule[d]) :
                     (d # dragDay \/ i # dragSlotIndex + 1) => schedule'[d][i] = schedule[d][i]
              /\ dragType = "resize-top"
                    => /\ ParseTimeToMinutes(new.from) = dragCurrentMinutes
                       /\ new.to = old.to
              /\ dragType = "resize-bottom"
                    => /\ ParseTimeToMinutes(new.to) = dragCurrentMinutes
                       /\ new.from = old.from]_vars

(* C12: parse(format(m)) = m for every m in {0, 15, 60, 720, 1425, 1440}, and *)
(* format(1440) is the end-of-day time "24:00"; the minutes of the drag in   *)
(* progress, which the pointer-up formats, are checked with them.            *)
C12_FormatRoundTrips ==
    LET dragged == IF isDragging THEN {dragStartMinutes, dragCurrentMinutes} ELSE {}
    IN  /\ \A m \in {0, 15, 60, 720, 1425, 1440} \cup dragged :
               ParseTimeToMinutes(MinutesToTime(m)) = m
        /\ MinutesToTime(1440) = T(24, 0)

(* for every integer minute of the day RoundToInterval gives a multiple of 15 in *)
(* [0,1440] that no other multiple of 15 is nearer to the minute than            *)
RoundsToNearestQuarter ==
    \A m \in 0..1440 :
        LET r == RoundToInterval(m)
        IN  /\ r % 15 = 0
            /\ r >= 0 /\ r <= 1440
            /\ \A k \in 0..96 :
                   Max(r - m, m - r) <= Max(15 * k - m, m - 15 * k)

(* C13: for every integer minute m in [0,1440], roundToInterval(m, 15) is the    *)
(* multiple of 15 nearest to m, lies in [0,1440] and is a multiple of 15; so are *)
(* the rounded minutes a create drag holds.                                      *)
C13_RoundToIntervalNearest ==
    /\ RoundsToNearestQuarter
    /\ (isDragging /\ dragType = "create") =>
           \A r \in {dragStartMinutes, dragCurrentMinutes} :
               r % 15 = 0 /\ r >= 0 /\ r <= 1440

(* a create drag whose pointer-down minute 482 was rounded down to 480 and whose *)
(* pointer-move minute 489 was rounded up to 495                                 *)
C13_Witness ==
    /\ isDragging /\ dragType = "create"
    /\ dragStartMinutes = 480
    /\ dragCurrentMinutes = 495

(* C14 (I2): from a loaded schedule whose slots all last at least 15 minutes,    *)
(* after any sequence of create, resize, dialog Save, Delete and Cancel every    *)
(* stored slot still has to - from >= 15 minutes.                                *)
C14_EverySlotQuarterHour ==
    \A d \in DOMAIN schedule : \A i \in 1..Len(schedule[d]) :
        ParseTimeToMinutes(schedule[d][i].to) - ParseTimeToMinutes(schedule[d][i].from) >= 15

(* C15 (I3): a step of materialise, create, Cancel, Delete, resize or dialog    *)
(* Save taken from a store in which every day key has a non-empty sequence      *)
(* leads to a store in which every day key has a non-empty sequence.            *)
C15_DayKeysNonEmpty ==
    [][(\A d \in DOMAIN schedule : schedule[d] # <<>>)
       => (\A d \in DOMAIN schedule' : schedule'[d] # <<>>)]_vars

(* the slot created on monday of the empty store has been cancelled, and the *)
(* store has no key for monday                                               *)
C15_Witness ==
    /\ "monday" \in columnRects
    /\ gesturesLeft = MaxGestures - 1
    /\ editingSlot = NoEdit
    /\ ~isDragging /\ ~docListeners
    /\ pendingSaves = 0
    /\ schedule = EmptySchedule

(* C16: from a store whose days are sorted ascending by from, after any sequence *)
(* of create, resize-top, resize-bottom, dialog Save, Delete and Cancel every    *)
(* day of the effective schedule is sorted ascending by from.                    *)
C16_EffectiveSortedByFrom ==
    LET eff == GetEffectiveSchedule(schedule)
    IN  \A d \in DOMAIN eff : \A i \in 1..Len(eff[d]) : \A j \in 1..Len(eff[d]) :
            i < j => ParseTimeToMinutes(eff[d][i].from) <= ParseTimeToMinutes(eff[d][j].from)

(* C17: dialog Save is accepted iff both inputs are present and from < to; when  *)
(* accepted the slot at the edit session's (day, index) becomes {from, to}, no   *)
(* other slot changes, the edit session is closed and the schedule is sent to be *)
(* saved; when rejected the store is unchanged, the edit session stays open and  *)
(* no save is sent.                                                              *)
C17_SaveAcceptedIffOrdered ==
    [][DialogShown =>
          \A f \in DialogTimes, t \in DialogTimes :
              HandleSlotUpdate(f, t)
              => LET day == editingSlot.day
                     index == editingSlot.index
                 IN  IF f # EmptyTime /\ t # EmptyTime
                        /\ ParseTimeToMinutes(f) < ParseTimeToMinutes(t)
                     THEN /\ DOMAIN schedule' = DOMAIN schedule
                          /\ \A d \in DOMAIN schedule : Len(schedule'[d]) = Len(schedule[d])
                          /\ \A d \in DOMAIN schedule : \A i \in 1..Len(schedule[d]) :
                                 schedule'[d][i] = IF d = day /\ i = index + 1
                                                   THEN [from |-> f, to |-> t]
                                                   ELSE schedule[d][i]
                          /\ editingSlot' = NoEdit /\ ~isNewSlot'
                          /\ pendingSaves' = pendingSaves + 1
                          /\ lastSaved' = <<schedule'>>
                     ELSE /\ schedule' = schedule
                          /\ editingSlot' = editingSlot /\ isNewSlot' = isNewSlot
                          /\ pendingSaves' = pendingSaves /\ lastSaved' = lastSaved]_vars

(* a Save of 09:00-17:00 has been accepted and is in flight *)
C17_Witness ==
    /\ editingSlot = NoEdit
    /\ pendingSaves = 1
    /\ lastSaved = <<schedule>>
    /\ \E d \in DOMAIN schedule : \E i \in 1..Len(schedule[d]) :
           schedule[d][i] = [from |-> <<9, 0>>, to |-> <<17, 0>>]

(* C18: dialog Delete removes exactly the slot at the edit session's (day,      *)
(* index): the slots before it keep their place, the slots after it move up by  *)
(* one, every other day is unchanged, the day key is dropped when the day       *)
(* became empty, the edit session is closed and the schedule is sent to be      *)
(* saved.                                                                       *)
C18_DeleteRemovesExactlyTheSlot ==
    [][(DialogShown /\ HandleSlotDelete)
       => LET day == editingSlot.day
              index == editingSlot.index
              old == schedule[day]
              new == SlotsOf(schedule', day)
          IN  /\ \A d \in Days \ {day} :
                     /\ d \in DOMAIN schedule' <=> d \in DOMAIN schedule
                     /\ d \in DOMAIN schedule => schedule'[d] = schedule[d]
              /\ Len(new) = Len(old) - 1
              /\ \A i \in 1..Len(new) : new[i] = IF i <= index THEN old[i] ELSE old[i + 1]
              /\ day \in DOMAIN schedule' <=> Len(old) > 1
              /\ editingSlot' = NoEdit /\ ~isNewSlot'
              /\ pendingSaves' = pendingSaves + 1
              /\ lastSaved' = <<schedule'>>]_vars

(* the first of tuesday's two slots has been deleted and the save is in flight *)
C18_Witness ==
    /\ editingSlot = NoEdit
    /\ pendingSaves = 1
    /\ lastSaved = <<schedule>>
    /\ DOMAIN schedule = {"monday", "tuesday"}
    /\ schedule["tuesday"] = <<[from |-> <<23, 45>>, to |-> <<24, 0>>]>>

(* C19: when a save call is rejected an alert is raised and a load call is sent  *)
(* in the same step, the store being left as it is; and when a load call         *)
(* succeeds the store becomes the schedule the transport returned.               *)
C19_RejectedSaveReloads ==
    [][/\ SaveScheduleDone(FALSE)
          => /\ alerts'
             /\ Len(pendingLoads') = Len(pendingLoads) + 1
             /\ schedule' = schedule
       /\ \A i \in 1..Len(pendingLoads) : \A r \in LoadResponses :
              (r.ok /\ LoadScheduleDone(i, r))
              => /\ schedule' = r.schedule
                 /\ ~error' /\ ~loading']_vars

(* a save was rejected and the reload it started has been answered with the *)
(* device's schedule                                                        *)
C19_Witness ==
    /\ alerts
    /\ gesturesLeft < MaxNetGestures
    /\ pendingSaves = 0
    /\ pendingLoads = <<>>
    /\ ~error /\ ~loading
    /\ schedule = [d \in {"monday", "tuesday"} |->
                      IF d = "monday" THEN <<>>
                      ELSE <<[from |-> <<6, 0>>, to |-> <<20, 0>>],
                             [from |-> <<23, 45>>, to |-> <<24, 0>>]>>]

(* C20: when a load call completes, loading is false afterwards; if the call     *)
(* succeeded the store is the returned schedule and the error is cleared; if it  *)
(* was rejected and the entity's snapshot has attributes.schedule the store is   *)
(* that schedule and the error is cleared; if it was rejected and there is no    *)
(* such attribute an error is recorded and the store is left as it was.          *)
C20_LoadOutcome ==
    [][\A i \in 1..Len(pendingLoads) : \A r \in LoadResponses :
          LoadScheduleDone(i, r)
          => LET attr == AttrSchedule(IF config THEN hass ELSE 0)
             IN  /\ ~loading'
                 /\ r.ok => (schedule' = r.schedule /\ ~error')
                 /\ (~r.ok /\ attr # <<>>) => (schedule' = attr[1] /\ ~error')
                 /\ (~r.ok /\ attr = <<>>) => (schedule' = schedule /\ error')]_vars

(* a rejected load has fallen back to the schedule attribute of the snapshot *)
C20_Witness ==
    /\ hass = 2
    /\ pendingLoads = <<>>
    /\ ~loading /\ ~error
    /\ schedule = [d \in {"tuesday"} |-> <<[from |-> <<6, 0>>, to |-> <<20, 0>>]>>]

(* C21: at most one save request is in flight at any time: the save of a later *)
(* gesture is not sent before the save of the previous gesture has completed.  *)
C21_OneSaveInFlight == pendingSaves <= 1

C23_TeardownReleasesAll ==
    [][DisconnectedCallback
       => /\ ~currentTimeInterval' /\ intervals' = 0
          /\ ~docListeners'
          /\ ~isDragging'
          /\ editingSlot' = NoEdit
          /\ columnRects' = {}]_vars

(* C24: in every state reachable by header clicks, connect and disconnect, at   *)
(* most one minute-ticker timer exists, one exists only while the widget is     *)
(* expanded, and none exists after a collapse or after teardown.                *)
C24_TickerOwnership ==
    /\ intervals <= 1
    /\ (intervals > 0 \/ currentTimeInterval) => (expanded /\ connected)

(* the ticker runs again after a teardown and a reconnect of the expanded card *)
C24_Witness ==
    /\ intervals = 1 /\ currentTimeInterval
    /\ expanded /\ connected
    /\ hass # 0 /\ ~loading

(* C26: setConfig called with a config that has no entity fails synchronously,  *)
(* and the previously held config and all other widget state are unchanged by   *)
(* the failed call.                                                             *)
C26_SetConfigFailsAtomically ==
    [][SetConfig(FALSE)
       => /\ configThrew'
          /\ UNCHANGED <<config, hass, connected, schedule, loadVars, viewVars, editVars,
                         dragVars, domVars, netVars>>]_vars

(* a failed call after a successful one: the held config is still in place *)
C26_Witness ==
    /\ configThrew /\ config
    /\ hass # 0 /\ Len(pendingLoads) = 1

(* C25: after every clock tick and every render, at most one slot is            *)
(* highlighted as active, for every stored schedule the card's operations can   *)
(* reach and every current time (two overlapping slots of a day are both        *)
(* active at the later of their start minutes, so those minutes are the ones    *)
(* examined, with the first and the last minute of the day).                   *)
C25_AtMostOneActiveSlot ==
    \A day \in Days :
        \A now \in {0, LastMinute} \cup
                   {ParseTimeToMinutes(SlotsOf(schedule, day)[i].from) :
                        i \in 1..Len(SlotsOf(schedule, day))} :
            Cardinality(UpdateActiveSlotHighlight(day, now)) <= 1

(* C27: the header summary is "Active 24/7 (no schedule set)" exactly when no   *)
(* day of the stored schedule has a slot; otherwise it is "N time slot(s)       *)
(* across D day(s)" with N the number of stored slots, D the number of days     *)
(* with at least one slot, and each noun singular exactly when its count is 1.  *)
C27_SummaryText ==
    LET N == Cardinality(UNION {{<<d, i>> : i \in 1..Len(schedule[d])} :
                                   d \in DOMAIN schedule})
        D == Cardinality({d \in DOMAIN schedule : schedule[d] # <<>>})
        slotNoun == IF N = 1 THEN "slot" ELSE "slots"
        dayNoun == IF D = 1 THEN "day" ELSE "days"
    IN  IF N = 0
        THEN GetScheduleSummary(schedule) = "Active 24/7 (no schedule set)"
        ELSE GetScheduleSummary(schedule) =
                 ToString(N) \o " time " \o slotNoun \o " across "
                     \o ToString(D) \o " " \o dayNoun

(* a second slot was created on the only day that has slots *)
C27_Witness ==
    /\ GetScheduleSummary(schedule) = "2 time slots across 1 day"
    /\ editingSlot # NoEdit /\ isNewSlot

(* C28: every pointer-up delivered while a drag session is active ends the      *)
(* drag, whatever loads completed in between: afterwards no drag session        *)
(* exists and the document-level pointer listeners are removed; a resize drag   *)
(* returns to Idle and a create drag enters EditingNew.                         *)
C28_PointerUpEndsDrag ==
    [][(isDragging /\ HandleMouseUp)
       => /\ ~isDragging' /\ dragType' = "none"
          /\ ~docListeners'
          /\ IF dragType = "create"
             THEN editingSlot' # NoEdit /\ isNewSlot'
             ELSE editingSlot' = NoEdit]_vars

(* C29: the create commit appends the new slot to the day and sorts the day     *)
(* ascending by from, keeping the relative order of slots with equal from (the  *)
(* new slot lands after the existing slots that share its from); the index      *)
(* recorded in the edit session designates a slot whose from and to equal       *)
(* those of the inserted slot.                                                  *)
C29_InsertIsStableSort ==
    [][(isDragging /\ dragType = "create" /\ HandleMouseUp)
       => LET slot == CreatedSlot(dragStartMinutes, dragCurrentMinutes)
              pushed == Append(SlotsOf(schedule, dragDay), slot)
              n == Len(pushed)
              key(x) == ParseTimeToMinutes(x.from)
          IN  /\ dragDay \in DOMAIN schedule'
              /\ Len(schedule'[dragDay]) = n
              /\ \E p \in [1..n -> 1..n] :
                     /\ \A i, j \in 1..n : i # j => p[i] # p[j]
                     /\ \A i \in 1..n : schedule'[dragDay][i] = pushed[p[i]]
                     /\ \A i, j \in 1..n :
                            i < j => \/ key(pushed[p[i]]) < key(pushed[p[j]])
                                     \/ /\ key(pushed[p[i]]) = key(pushed[p[j]])
                                        /\ p[i] < p[j]
              /\ editingSlot'.day = dragDay
              /\ editingSlot'.index \in 0..(n - 1)
              /\ schedule'[dragDay][editingSlot'.index + 1].from = slot.from
              /\ schedule'[dragDay][editingSlot'.index + 1].to = slot.to]_vars

(* the new slot shares its from with the slot that was already there and *)
(* was placed after it                                                   *)
C29_Witness ==
    /\ editingSlot # NoEdit /\ isNewSlot
    /\ editingSlot.index = 1
    /\ HasSlot(schedule, editingSlot.day, 1)
    /\ schedule[editingSlot.day][1].from = schedule[editingSlot.day][2].from
    /\ schedule[editingSlot.day][1].to # schedule[editingSlot.day][2].to

(* C30: each user gesture sends at most one save: a resize commit, an accepted  *)
(* dialog Save and a dialog Delete each send exactly one save request carrying  *)
(* the stored schedule as it is after the gesture's mutation; a create commit,  *)
(* a Cancel, a rejected Save and a stale pointer-up send none.                  *)
C30_OneSavePerGesture ==
    [][LET one == pendingSaves' = pendingSaves + 1 /\ lastSaved' = <<schedule'>>
           none == pendingSaves' = pendingSaves /\ lastSaved' = lastSaved
       IN  /\ pendingSaves' <= pendingSaves + 1
           /\ (isDragging /\ HandleMouseUp)
                  => IF dragType = "create" THEN none ELSE one
           /\ HandleSlotDelete => one
           /\ DialogShown
                  => \A f, t \in DialogTimes :
                         HandleSlotUpdate(f, t)
                             => IF UpdateAccepted(f, t) THEN one ELSE none
           /\ CloseDialog => none
           /\ ((~isDragging /\ HandleMouseUp) \/ IgnoredMouseUp) => none]_vars

(* C31: after every pointer-move of a drag, the removal preview is visible if   *)
(* and only if the drag is a resize that strictly shrinks the slot (resize-top  *)
(* with currentMin > original from, resize-bottom with currentMin < original    *)
(* to); when visible it covers exactly [original from, currentMin] respectively *)
(* [currentMin, original to]; it is never visible during a create drag.         *)
C31_RemovalPreviewIffShrink ==
    [][(isDragging /\ \E y \in MoveYs : HandleMouseMove(y))
       => LET from == ParseTimeToMinutes(dragOriginalSlot.from)
              to == ParseTimeToMinutes(dragOriginalSlot.to)
          IN  IF dragType = "resize-top" /\ dragCurrentMinutes' > from
              THEN removalPreviews' =
                       {[day |-> dragDay, top |-> from, bottom |-> dragCurrentMinutes']}
              ELSE IF dragType = "resize-bottom" /\ dragCurrentMinutes' < to
              THEN removalPreviews' =
                       {[day |-> dragDay, top |-> dragCurrentMinutes', bottom |-> to]}
              ELSE removalPreviews' = {}]_vars

(* C32: a click on a slot body while Idle materialises the slot and opens the   *)
(* dialog on (day, index) with isNew = false; a click on a slot body that       *)
(* arrives while a drag session is active opens no dialog and leaves the stored *)
(* schedule, the edit session and the drag session unchanged.                   *)
C32_SlotClickOpensDialogUnlessDragging ==
    [][\A d \in GestureDays, i \in 0..(MaxSlots - 1) :
           HandleSlotClick(d, i)
               => IF isDragging
                  THEN UNCHANGED <<schedule, editVars, dragVars>>
                  ELSE /\ HasSlot(schedule', d, i)
                       /\ schedule'[d][i + 1] = GetEffectiveSchedule(schedule)[d][i + 1]
                       /\ editingSlot' = [day |-> d, index |-> i]
                       /\ isNewSlot' = FALSE
                       /\ DialogShown'
                       /\ UNCHANGED dragVars]_vars

(* the click on the displayed all-day slot of an empty store opened the dialog *)
(* on the materialised slot                                                    *)
C32_Witness ==
    /\ editingSlot = [day |-> "monday", index |-> 0] /\ ~isNewSlot
    /\ DialogShown
    /\ ~isDragging
    /\ schedule = [d \in Days |-> <<AllDay>>]
    /\ gesturesLeft = MaxGestures - 1

(* C33: the seven all-day slots produced by materialising an empty store are    *)
(* independent copies: resizing or replacing the slot of one day leaves the     *)
(* slots of the other days at 00:00-24:00, and what the effective schedule of   *)
(* an empty store returns stays seven all-day slots.                            *)
C33_MaterialisedSlotsIndependent ==
    [][\A e \in Days :
           (/\ SlotsOf(schedule, e) = <<AllDay>>
            /\ \/ /\ isDragging /\ dragType \in {"resize-top", "resize-bottom"}
                  /\ dragDay # e
                  /\ HandleMouseUp
               \/ /\ DialogShown /\ editingSlot.day # e
                  /\ \E f, t \in DialogTimes : HandleSlotUpdate(f, t))
               => /\ SlotsOf(schedule', e) = <<AllDay>>
                  /\ GetEffectiveSchedule(EmptySchedule) = [d \in Days |-> <<AllDay>>]]_vars

(* monday's materialised slot was resized or replaced and its save sent; the *)
(* other six days still hold 00:00-24:00                                     *)
C33_Witness ==
    /\ DOMAIN schedule = Days
    /\ schedule["monday"] # <<AllDay>>
    /\ \A e \in Days \ {"monday"} : schedule[e] = <<AllDay>>
    /\ ~isDragging /\ editingSlot = NoEdit
    /\ pendingSaves = 1 /\ lastSaved = <<schedule>>

(* C34: after a clock tick, a slot displayed in today's column is highlighted   *)
(* if and only if its from <= now < to, where the displayed slots are those of  *)
(* the effective schedule; in particular, when the stored schedule is empty the *)
(* displayed all-day slot of today is highlighted.                              *)
C34_HighlightFollowsEffective ==
    (GridShown /\ currentTimeInterval)
        => \A today \in Days :
               LET shown == SlotsOf(GetEffectiveSchedule(schedule), today)
               IN  \A now \in {0, LastMinute} \cup
                              {ParseTimeToMinutes(shown[i].from) : i \in 1..Len(shown)} :
                       UpdateActiveSlotHighlight(today, now) =
                           {i \in 0..(Len(shown) - 1) :
                               /\ shown[i + 1] # NoSlot
                               /\ ParseTimeToMinutes(shown[i + 1].from) <= now
                               /\ now < ParseTimeToMinutes(shown[i + 1].to)}

(* C35: when dialog Delete removes the only slot remaining in the whole stored  *)
(* schedule, the store becomes empty (no day has a slot), the effective         *)
(* schedule then shows one 00:00-24:00 slot on all seven days with the summary  *)
(* "Active 24/7 (no schedule set)", and the payload persisted by that Delete is *)
(* the empty schedule.                                                          *)
C35_DeleteLastSlotEmptiesStore ==
    [][(HandleSlotDelete /\ TotalSlots(schedule, Len(DAYS)) = 1)
       => /\ \A d \in DOMAIN schedule' : schedule'[d] = <<>>
          /\ ~HasSchedule(schedule')
          /\ GetEffectiveSchedule(schedule') = [d \in Days |-> <<AllDay>>]
          /\ GetScheduleSummary(schedule') = "Active 24/7 (no schedule set)"
          /\ pendingSaves' = pendingSaves + 1
          /\ lastSaved' = <<schedule'>>]_vars

(* the Delete of the last slot left an empty store and its save is in flight *)
C35_Witness ==
    /\ ~HasSchedule(schedule)
    /\ editingSlot = NoEdit /\ ~isDragging
    /\ pendingSaves >= 1 /\ lastSaved = <<schedule>>
    /\ GetEffectiveSchedule(schedule)["sunday"] = <<AllDay>>

(* C36: a resize gesture without pointer movement is a no-op on the slot: for   *)
(* every slot of the effective schedule (a slot ending at 24:00 included),      *)
(* pointer-down on its top or bottom edge followed by pointer-up with the       *)
(* pointer where it was leaves the slot's from and to as before the gesture.    *)
C36_ResizeWithoutMoveIsNoOp ==
    [][(/\ isDragging /\ dragType \in {"resize-top", "resize-bottom"}
        /\ dragCurrentMinutes = dragStartMinutes
        /\ HasSlot(schedule, dragDay, dragSlotIndex)
        /\ schedule[dragDay][dragSlotIndex + 1] = dragOriginalSlot
        /\ HandleMouseUp)
       => /\ HasSlot(schedule', dragDay, dragSlotIndex)
          /\ schedule'[dragDay][dragSlotIndex + 1] = dragOriginalSlot]_vars

(* C37: in every reachable state where an edit session {day, index} exists, the *)
(* stored schedule has a slot at store[day][index], for every interleaving of   *)
(* user events with load completions; hence an open edit session always has a   *)
(* dialog rendered through which it can be closed.                              *)
C37_EditSessionHasSlot ==
    editingSlot # NoEdit
        => /\ HasSlot(schedule, editingSlot.day, editingSlot.index)
           /\ (Rendered => DialogShown)

(* C38: when two load calls are in flight at once, after both have completed    *)
(* successfully the stored schedule equals the response to the load that was    *)
(* started last, whatever the order in which the two responses arrive.          *)
C38_LastStartedLoadWins ==
    [][\A r \in LoadResponses :
           (/\ Len(pendingLoads) = 1
            /\ newestLoad.status = "done" /\ newestLoad.response.ok
            /\ r.ok
            /\ LoadScheduleDone(1, r))
               => schedule' = newestLoad.response.schedule]_vars

(* C39: a snapshot whose entity state changed identity while a drag or edit     *)
(* session was active is not lost: after the session ends, the next delivery of *)
(* a hass snapshot starts a load even if the entity's state identity has not    *)
(* changed again since the skipped snapshot.                                    *)
C39_SkippedSnapshotReloads == snapshotGate # "ignored"

(* C40: whatever the order in which setConfig (with an entity) and the first    *)
(* hass snapshot are delivered, once both have been delivered a load is         *)
(* started, so the widget is never in the loading state with both delivered     *)
(* and no load in flight.                                                       *)
C40_LoadStartsOnceConfiguredAndSnapshot ==
    (config /\ hass # 0 /\ loading) => Len(pendingLoads) > 0

=============================================================================
